---- MODULE Spec2Model ----
(***************************************************************************)
(* photo-tagger: EXIF extraction, reverse geocoding, 16:9 fitting, caption *)
(* overlay (src/src/photo_tagger/tagger.py), the Flask service around it   *)
(* (src/src/photo_tagger/app.py) and the command-line entry point.         *)
(*                                                                         *)
(* Conventions of the model                                                *)
(*   - Python's None is the string None; an optional record is a sequence  *)
(*     of length 0 or 1.                                                   *)
(*   - a file name "IMG_1.jpg" is the record [stem |-> "IMG_1",            *)
(*     suffix |-> ".jpg"]; a path adds the directory.                      *)
(*   - a function that can raise returns a record whose exc field is the   *)
(*     exception's class name, or NoExc.                                   *)
(***************************************************************************)
EXTENDS Integers, Sequences, FiniteSets, TLC

VARIABLES files, dirs, writes, req, geoIn, geoOut, fitIn, fitOut

vars == <<files, dirs, writes, req, geoIn, geoOut, fitIn, fitOut>>

(***************************************************************************)
(* Bounds of the model.                                                    *)
(***************************************************************************)
MaxReq == 2
MaxDim == 24

None == "None"
NoExc == "none"

Truthy(x) == x \notin {None, ""}

(***************************************************************************)
(* Paths (pathlib.Path as used by the program).                            *)
(***************************************************************************)
MkName(stem, suffix) == [stem |-> stem, suffix |-> suffix]
MkPath(dir, stem, suffix) == [dir |-> dir, stem |-> stem, suffix |-> suffix]
Join(folder, filename) == MkPath(folder, filename.stem, filename.suffix)
NameOf(p) == p.stem \o p.suffix
Sub(dir, child) == dir \o "/" \o child

(***************************************************************************)
(* Place Resolver: get_location_string.                                    *)
(***************************************************************************)
Attempts == 2
RetryDelay == 2

USNames == {"United States", "USA", "United States of America"}

AddrGet(addr, key) == IF key \in DOMAIN addr THEN addr[key] ELSE None

PyOr(a, b) == IF Truthy(a) THEN a ELSE b

\* the locality taken town-first
FormatAddressTownFirst(addr) ==
    LET city == PyOr(AddrGet(addr, "town"),
                 PyOr(AddrGet(addr, "city"),
                  PyOr(AddrGet(addr, "village"), AddrGet(addr, "municipality"))))
        state == AddrGet(addr, "state")
        country == AddrGet(addr, "country")
    IN  IF country \in USNames
        THEN IF Truthy(city) /\ Truthy(state) THEN city \o ", " \o state
             ELSE IF Truthy(state) THEN state
             ELSE "USA"
        ELSE IF Truthy(city) /\ Truthy(country) THEN city \o ", " \o country
             ELSE PyOr(country, "Unknown")

FormatAddress(addr) ==
    LET city == PyOr(AddrGet(addr, "city"),
                 PyOr(AddrGet(addr, "town"),
                  PyOr(AddrGet(addr, "village"), AddrGet(addr, "municipality"))))
        state == AddrGet(addr, "state")
        country == AddrGet(addr, "country")
    IN  IF country \in USNames
        THEN IF Truthy(city) /\ Truthy(state) THEN city \o ", " \o state
             ELSE IF Truthy(state) THEN state
             ELSE "USA"
        ELSE IF Truthy(city) /\ Truthy(country) THEN city \o ", " \o country
             ELSE PyOr(country, "Unknown")

\* One answer of the geocoding service to geolocator.reverse(...).
Unbound == [kind |-> "unbound", address |-> <<>>]
Raises == [kind |-> "raise", address |-> <<>>]
NoMatch == [kind |-> "none", address |-> <<>>]
Match(addr) == [kind |-> "match", address |-> addr]

Call == [ev |-> "reverse", arg |-> 0]
Sleep(n) == [ev |-> "sleep", arg |-> n]

\* The body of the for loop, iteration i, on the local variable location.
RECURSIVE GeoLoop(_, _, _, _)
GeoLoop(i, location, trace, answers) ==
    IF i > Attempts THEN [location |-> location, trace |-> trace]
    ELSE IF answers[i].kind = "raise"
         THEN GeoLoop(i + 1, location, trace \o <<Call, Sleep(RetryDelay)>>, answers)
         ELSE GeoLoop(i + 1, answers[i], Append(trace, Call), answers)

get_location_string(answers) ==
    LET after == GeoLoop(1, Unbound, <<>>, answers)
        location == after.location
    IN  IF location = Unbound
        THEN [exc |-> "UnboundLocalError", value |-> None, trace |-> after.trace]
        ELSE IF location.kind = "none"
        THEN [exc |-> NoExc, value |-> None, trace |-> after.trace]
        ELSE [exc |-> NoExc, value |-> FormatAddress(location.address),
              trace |-> after.trace]

(***************************************************************************)
(* Coordinate Decoder: get_decimal_coords.  A rational is <<num, den>>; a  *)
(* decoded coordinate is kept as the exact signed fraction                 *)
(* [num, den] of d + m/60 + s/3600.                                        *)
(***************************************************************************)
to_decimal(values, ref) ==
    IF \E i \in 1..3 : values[i][2] = 0
    THEN [exc |-> "ZeroDivisionError", num |-> 0, den |-> 1]
    ELSE LET dn == values[1][1]  dd == values[1][2]
             mn == values[2][1]  md == values[2][2]
             sn == values[3][1]  sd == values[3][2]
             num == dn * md * sd * 3600 + mn * dd * sd * 60 + sn * dd * md
             den == 3600 * dd * md * sd
         IN  [exc |-> NoExc,
              num |-> IF ref \in {"S", "W"} THEN 0 - num ELSE num,
              den |-> den]

get_decimal_coords(tags) ==
    IF "GPS GPSLatitudeRef" \notin DOMAIN tags
    THEN [exc |-> "KeyError", lat |-> <<>>, lon |-> <<>>]
    ELSE LET lat == to_decimal(tags["GPS GPSLatitude"], tags["GPS GPSLatitudeRef"])
         IN  IF lat.exc # NoExc THEN [exc |-> lat.exc, lat |-> <<>>, lon |-> <<>>]
             ELSE IF "GPS GPSLongitudeRef" \notin DOMAIN tags
             THEN [exc |-> "KeyError", lat |-> <<>>, lon |-> <<>>]
             ELSE LET lon == to_decimal(tags["GPS GPSLongitude"],
                                        tags["GPS GPSLongitudeRef"])
                  IN  IF lon.exc # NoExc
                      THEN [exc |-> lon.exc, lat |-> <<>>, lon |-> <<>>]
                      ELSE [exc |-> NoExc, lat |-> <<lat.num, lat.den>>,
                            lon |-> <<lon.num, lon.den>>]

(***************************************************************************)
(* Metadata Extractor: get_exif_data.  The DateTimeOriginal string         *)
(* "YYYY:MM:DD HH:MM:SS" is the record of its six numbers; strptime        *)
(* accepts it when every field is in range.                                *)
(***************************************************************************)
DaysIn(y, m) ==
    IF m \in {4, 6, 9, 11} THEN 30
    ELSE IF m = 2
         THEN (IF (y % 4 = 0 /\ y % 100 # 0) \/ y % 400 = 0 THEN 29 ELSE 28)
         ELSE 31

strptime(dt) ==
    IF /\ dt.Y \in 1..9999 /\ dt.M \in 1..12 /\ dt.D \in 1..DaysIn(dt.Y, dt.M)
       /\ dt.h \in 0..23 /\ dt.m \in 0..59 /\ dt.s \in 0..61
    THEN [exc |-> NoExc, value |-> <<dt>>]
    ELSE [exc |-> "ValueError", value |-> <<>>]

Failed(e, trace) ==
    [exc |-> e, location |-> None, capture_time |-> <<>>, geocoding |-> trace]

get_exif_data(file, answers) ==
    IF ~file.readable THEN Failed("OSError", <<>>)
    ELSE
    LET tags == file.tags
        parsed == IF "EXIF DateTimeOriginal" \in DOMAIN tags
                  THEN strptime(tags["EXIF DateTimeOriginal"])
                  ELSE [exc |-> NoExc, value |-> <<>>]
    IN  IF parsed.exc # NoExc THEN Failed(parsed.exc, <<>>)
        ELSE IF "GPS GPSLatitude" \in DOMAIN tags /\ "GPS GPSLongitude" \in DOMAIN tags
        THEN LET coords == get_decimal_coords(tags)
             IN  IF coords.exc # NoExc THEN Failed(coords.exc, <<>>)
                 ELSE LET place == get_location_string(answers)
                      IN  IF place.exc # NoExc THEN Failed(place.exc, place.trace)
                          ELSE [exc |-> NoExc, location |-> place.value,
                                capture_time |-> parsed.value,
                                geocoding |-> place.trace]
        ELSE [exc |-> NoExc, location |-> None, capture_time |-> parsed.value,
              geocoding |-> <<>>]

(***************************************************************************)
(* Compositor geometry: fit_to_16_9.  The source computes with IEEE-754    *)
(* doubles: img_ratio = fl(w / h), target_ratio = fl(16 / 9), and          *)
(* int(c / ratio), int(c * ratio).  For a ratio p / q of small integers    *)
(* the double fl(p / q) = (p * 2^e + rho) / (q * 2^e) with 2^52 <= mantissa*)
(* < 2^53; rho (RoundResidue) is found from 2^e mod q.  A quotient or      *)
(* product whose exact value is a whole number n comes out as the double   *)
(* below n, and int() as n - 1, exactly when the ratio's rounding error    *)
(* moves it more than half a unit in the last place below n (RoundsBelow). *)
(***************************************************************************)
MaxWidth == 1920
TargetNum == 16
TargetDen == 9
MantissaBits == 52

\* the width taken without the cap
MinUncapped(a, b) == a

Min(a, b) == IF a < b THEN a ELSE b
Max(a, b) == IF a > b THEN a ELSE b

RECURSIVE Pow2(_)
Pow2(k) == IF k = 0 THEN 1 ELSE 2 * Pow2(k - 1)

RECURSIVE Pow2Mod(_, _)
Pow2Mod(e, q) == IF e = 0 THEN 1 % q ELSE (2 * Pow2Mod(e - 1, q)) % q

\* floor(log2(n)) for n >= 1
RECURSIVE ILog2(_)
ILog2(n) == IF n < 2 THEN 0 ELSE 1 + ILog2(n \div 2)

\* floor(log2(p / q)) for p, q >= 1
RECURSIVE Log2Up(_, _)
Log2Up(p, q) == IF 2 * q <= p THEN 1 + Log2Up(p, 2 * q) ELSE 0
RECURSIVE Log2Down(_, _)
Log2Down(p, q) == IF p < q THEN Log2Down(2 * p, q) - 1 ELSE 0
Log2FloorQ(p, q) == IF p >= q THEN Log2Up(p, q) ELSE Log2Down(p, q)

Exponent(p, q) == MantissaBits - Log2FloorQ(p, q)

\* 0: fl(p/q) is exact; > 0: rounded up; < 0: rounded down
RoundResidue(p, q) ==
    LET rem == (p * Pow2Mod(Exponent(p, q), q)) % q
    IN  IF rem = 0 THEN 0
        ELSE IF 2 * rem > q THEN q - rem
        ELSE 0 - rem

RoundsBelow(n, mag, p, q) ==
    IF n = 0 \/ mag = 0 THEN FALSE
    ELSE LET k == ILog2(n)
             hs == IF n = Pow2(k) THEN k - 54 ELSE k - 53
             d == (0 - hs) - Exponent(p, q)
             x == mag * n
         IN  IF d >= 0 THEN x > p \div Pow2(d)
             ELSE (x - 1) \div Pow2(0 - d) >= p

\* int(c / fl(p / q))
IntDiv(c, p, q) ==
    LET n == (c * q) \div p
        rho == RoundResidue(p, q)
    IN  IF (c * q) % p = 0 /\ rho > 0 /\ RoundsBelow(n, rho, p, q)
        THEN n - 1 ELSE n

\* int(c * fl(p / q))
IntMul(c, p, q) ==
    LET n == (c * p) \div q
        rho == RoundResidue(p, q)
    IN  IF (c * p) % q = 0 /\ rho < 0 /\ RoundsBelow(n, 0 - rho, p, q)
        THEN n - 1 ELSE n

\* fl(p / q) > fl(a / b): correctly rounded division is monotone and the two
\* doubles are equal exactly when the fractions are (all operands < 2^13).
RatioGreater(p, q, a, b) == p * b > a * q

fit_to_16_9(img) ==
    LET canvas_width == Min(img.width, MaxWidth)
        canvas_height == IntDiv(canvas_width, TargetNum, TargetDen)
        wider == RatioGreater(img.width, img.height, TargetNum, TargetDen)
        new_width == IF wider THEN canvas_width
                     ELSE IntMul(canvas_height, img.width, img.height)
        new_height == IF wider THEN IntDiv(canvas_width, img.width, img.height)
                      ELSE canvas_height
    IN  [exc |-> IF new_width < 1 \/ new_height < 1 THEN "ValueError" ELSE NoExc,
         width |-> canvas_width, height |-> canvas_height,
         new_width |-> new_width, new_height |-> new_height,
         x_offset |-> (canvas_width - new_width) \div 2,
         y_offset |-> (canvas_height - new_height) \div 2]

(***************************************************************************)
(* The photo folder the model runs on: one source image per metadata case. *)
(***************************************************************************)
Folder == "/photos"

Stamp == [Y |-> 2023, M |-> 7, D |-> 4, h |-> 18, m |-> 5, s |-> 9]
BadStamp == [Y |-> 0, M |-> 0, D |-> 0, h |-> 0, m |-> 0, s |-> 0]
Lat == <<<<35, 1>>, <<40, 1>>, <<3380, 100>>>>
Lon == <<<<139, 1>>, <<45, 1>>, <<1200, 100>>>>
LatZero == <<<<35, 1>>, <<40, 0>>, <<3380, 100>>>>

TimeTag(t) == "EXIF DateTimeOriginal" :> t
GpsTags == ("GPS GPSLatitude" :> Lat) @@ ("GPS GPSLatitudeRef" :> "N")
           @@ ("GPS GPSLongitude" :> Lon) @@ ("GPS GPSLongitudeRef" :> "E")
GpsZeroDen == ("GPS GPSLatitude" :> LatZero) @@ GpsTags
GpsNoRef == ("GPS GPSLatitude" :> Lat)
            @@ ("GPS GPSLongitude" :> Lon) @@ ("GPS GPSLongitudeRef" :> "E")
NoTags == [k \in {} |-> None]

Source(readable, decodable, tags, w, h) ==
    [kind |-> "source", readable |-> readable, decodable |-> decodable,
     tags |-> tags, width |-> w, height |-> h]

Catalog ==
       (MkPath(Folder, "IMG_1", ".jpg") :> Source(TRUE, TRUE, TimeTag(Stamp) @@ GpsTags, 4000, 2000))
    @@ (MkPath(Folder, "IMG_1", ".heic") :> Source(TRUE, TRUE, TimeTag(Stamp), 1000, 2000))
    @@ (MkPath(Folder, "DSC_2", ".JPG") :> Source(TRUE, TRUE, NoTags, 1600, 900))
    @@ (MkPath(Folder, "IMG_3", ".jpg") :> Source(TRUE, TRUE, GpsTags, 640, 480))
    @@ (MkPath(Folder, "IMG_4", ".jpg") :> Source(TRUE, TRUE, TimeTag(BadStamp), 640, 480))
    @@ (MkPath(Folder, "IMG_5", ".jpg") :> Source(TRUE, TRUE, TimeTag(Stamp) @@ GpsZeroDen, 640, 480))
    @@ (MkPath(Folder, "IMG_6", ".jpg") :> Source(TRUE, TRUE, TimeTag(Stamp) @@ GpsNoRef, 640, 480))
    @@ (MkPath(Folder, "IMG_7", ".png") :> Source(FALSE, FALSE, NoTags, 640, 480))
    @@ (MkPath(Folder, "notes", ".txt") :> Source(TRUE, FALSE, NoTags, 0, 0))

ThumbNames == {MkName("IMG_1", ".jpg"), MkName("IMG_7", ".png"), MkName("notes", ".txt"),
               MkName("gone", ".jpg")}
CliImages == {MkName("IMG_1", ".heic"), MkName("DSC_2", ".JPG"), MkName("IMG_4", ".jpg")}

Stems == {p.stem : p \in DOMAIN Catalog}
Missing == MkName("gone", ".jpg")
Names == {MkName(p.stem, p.suffix) : p \in DOMAIN Catalog} \cup {Missing}
ExplicitOut == MkPath(Folder, "out", ".png")

\* What the geocoding service may answer while a photo is tagged.
Tokyo == ("city" :> "Tokyo") @@ ("country" :> "Japan")
\* during one tagging the service is down, finds nothing, finds the place, or
\* fails once and then finds the place
AnswerSeqs == {<<Raises, Raises>>, <<NoMatch, NoMatch>>,
               <<Match(Tokyo), Match(Tokyo)>>, <<Raises, Match(Tokyo)>>}

(***************************************************************************)
(* Tagging Orchestrator: overlay_text.                                     *)
(***************************************************************************)
MonthName == <<"January", "February", "March", "April", "May", "June", "July",
               "August", "September", "October", "November", "December">>
Digit == <<"0", "1", "2", "3", "4", "5", "6", "7", "8", "9">>
D2(n) == Digit[((n \div 10) % 10) + 1] \o Digit[(n % 10) + 1]
D4(n) == D2(n \div 100) \o D2(n % 100)

\* capture_time.strftime("%B %d, %Y  %I:%M %p")
strftime(t) ==
    MonthName[t.M] \o " " \o D2(t.D) \o ", " \o D4(t.Y) \o "  "
    \o D2(IF t.h % 12 = 0 THEN 12 ELSE t.h % 12) \o ":" \o D2(t.m)
    \o (IF t.h < 12 THEN " AM" ELSE " PM")

RECURSIVE JoinLines(_)
JoinLines(lines) ==
    IF lines = <<>> THEN ""
    ELSE IF Len(lines) = 1 THEN lines[1]
    ELSE lines[1] \o "\n" \o JoinLines(Tail(lines))

Caption(location, capture_time) ==
    LET lines == (IF Truthy(location) THEN <<location>> ELSE <<>>)
                 \o (IF capture_time # <<>> THEN <<strftime(capture_time[1])>> ELSE <<>>)
    IN  JoinLines(lines)

\* the test with its second "not" dropped
NoMetadataOnlyPlace(location, capture_time) == ~Truthy(location) /\ capture_time # <<>>

NoMetadata(location, capture_time) == ~Truthy(location) /\ capture_time = <<>>

NoImage == [text |-> "", width |-> 0, height |-> 0, font_size |-> 0]
MinFont == 16
FontDivisor == 30

\* overlay_text up to the drawn image: [exc, result, image, geocoding]
\* with result "none" (return None) or "image".
overlay_compose(image_path, file, answers) ==
    LET meta == get_exif_data(file, answers)
        Out(exc, result, image) ==
            [exc |-> exc, result |-> result, image |-> image,
             geocoding |-> meta.geocoding]
    IN  IF meta.exc # NoExc THEN Out(meta.exc, "raise", NoImage)
        ELSE IF NoMetadata(meta.location, meta.capture_time)
        THEN Out(NoExc, "none", NoImage)
        ELSE IF ~file.decodable THEN Out("UnidentifiedImageError", "raise", NoImage)
        ELSE LET img == fit_to_16_9(file)
             IN  IF img.exc # NoExc THEN Out(img.exc, "raise", NoImage)
                 ELSE Out(NoExc, "image",
                          [text |-> Caption(meta.location, meta.capture_time),
                           width |-> img.width, height |-> img.height,
                           font_size |-> Max(MinFont, img.width \div FontDivisor)])

\* directory mode keeping the source's extension
overlay_output_path_suffix(image_path, output_path, output_dir) ==
    IF output_path # <<>> THEN output_path[1]
    ELSE IF output_dir # <<>>
         THEN MkPath(output_dir[1], image_path.stem \o "_tagged", image_path.suffix)
         ELSE MkPath(image_path.dir, image_path.stem \o "_tagged", image_path.suffix)

\* the path overlay_text saves to; output_path and output_dir are <<>> when
\* not given
overlay_output_path(image_path, output_path, output_dir) ==
    IF output_path # <<>> THEN output_path[1]
    ELSE IF output_dir # <<>>
         THEN MkPath(output_dir[1], image_path.stem \o "_tagged", ".png")
         ELSE MkPath(image_path.dir, image_path.stem \o "_tagged", image_path.suffix)

Tagged(image_path, image) ==
    [kind |-> "tagged", from |-> image_path, text |-> image.text,
     width |-> image.width, height |-> image.height, font_size |-> image.font_size]

\* a save that refuses to replace an existing file
PutNew(f, k, v) == IF k \in DOMAIN f THEN f ELSE [x \in DOMAIN f \cup {k} |-> IF x = k THEN v ELSE f[x]]

Put(f, k, v) == [x \in DOMAIN f \cup {k} |-> IF x = k THEN v ELSE f[x]]
Count(f, k) == IF k \in DOMAIN f THEN f[k] ELSE 0

(***************************************************************************)
(* Folder / tag-state service helpers: list_images, is_tagged.             *)
(***************************************************************************)
IMAGE_EXTENSIONS == {".jpg", ".jpeg", ".png", ".tiff", ".bmp", ".heic"}

Lower(suffix) ==
    IF suffix = ".JPG" THEN ".jpg"
    ELSE IF suffix = ".PNG" THEN ".png"
    ELSE suffix

\* 'tagged' in stem, over the stems the folder can hold
HasTagged(stem) == \E st \in Stems : stem = st \o "_tagged"

\* sorted(folder.iterdir()): the names of the folder in code-point order
SortOrder == <<
    MkName("DSC_2", ".JPG"), MkName("DSC_2_tagged", ".JPG"),
    MkName("IMG_1", ".heic"), MkName("IMG_1", ".jpg"),
    MkName("IMG_1_tagged", ".heic"), MkName("IMG_1_tagged", ".jpg"),
    MkName("IMG_3", ".jpg"), MkName("IMG_3_tagged", ".jpg"),
    MkName("IMG_4", ".jpg"), MkName("IMG_4_tagged", ".jpg"),
    MkName("IMG_5", ".jpg"), MkName("IMG_5_tagged", ".jpg"),
    MkName("IMG_6", ".jpg"), MkName("IMG_6_tagged", ".jpg"),
    MkName("IMG_7", ".png"), MkName("IMG_7_tagged", ".png"),
    MkName("notes", ".txt"), MkName("notes_tagged", ".txt"),
    MkName("out", ".png") >>

list_images(folder_path, fs) ==
    LET Keep(n) == /\ Join(folder_path, n) \in DOMAIN fs
                   /\ Lower(n.suffix) \in IMAGE_EXTENSIONS
                   /\ ~HasTagged(n.stem)
    IN  SelectSeq(SortOrder, Keep)

\* the marker looked for beside the source
is_tagged_sibling(image_path, fs) ==
    MkPath(image_path.dir, image_path.stem \o "_tagged", ".png") \in DOMAIN fs

\* the marker keyed by the whole file name
is_tagged_by_name(image_path, fs) ==
    LET tagged_dir == Sub(image_path.dir, "tagged")
        tagged_file == MkPath(tagged_dir, NameOf(image_path) \o "_tagged", ".png")
    IN  tagged_file \in DOMAIN fs

is_tagged(image_path, fs) ==
    LET tagged_dir == Sub(image_path.dir, "tagged")
        tagged_file == MkPath(tagged_dir, image_path.stem \o "_tagged", ".png")
    IN  tagged_file \in DOMAIN fs

(***************************************************************************)
(* State.                                                                  *)
(*   files    the regular files of the file system: path -> content        *)
(*   dirs     the directories that exist                                   *)
(*   writes   path -> number of completed img.save(path)                   *)
(*   req      the invocations of the program, numbered in order of        *)
(*            arrival: HTTP requests (one Flask worker thread each) and    *)
(*            command-line runs (one process each)                         *)
(*   geoIn, geoOut, fitIn, fitOut   input and result of get_location_string*)
(*            and fit_to_16_9 when they are exercised on their own         *)
(***************************************************************************)
Req == 1..MaxReq

NoName == MkName("", "")
NoPath == MkPath("", "", "")

Idle == [kind |-> "", pc |-> "idle", filename |-> NoName, answers |-> <<>>,
         image |-> NoImage, http |-> 0, status |-> "", message |-> "",
         output |-> "", images |-> <<>>, output_path |-> <<>>]

Respond(r, http, status, message, output) ==
    [r EXCEPT !.pc = "done", !.http = http, !.status = status,
              !.message = message, !.output = output]

\* an exception that escapes the handler: Flask's own 500 page
Uncaught(r, exc) == Respond(r, 500, "", "", "")

\* api_tag_image's except clause
Caught(r, exc) == Respond(r, 500, "error", exc, "")

\* a request is accepted once the requests before it have been
Arrives(r) == req[r].pc = "idle" /\ \A q \in Req : q < r => req[q].pc # "idle"

GeoPending == [exc |-> "pending", value |-> None, trace |-> <<>>]
NoFit == [exc |-> "pending", width |-> 0, height |-> 0, new_width |-> 0,
          new_height |-> 0, x_offset |-> 0, y_offset |-> 0]
NoImg == [width |-> 0, height |-> 0]

Service ==
    /\ files = Catalog
    /\ dirs = {Folder}
    /\ writes = [p \in {} |-> 0]
    /\ req = [r \in Req |-> Idle]

Init ==
    /\ Service
    /\ geoIn = <<>> /\ geoOut = GeoPending
    /\ fitIn = NoImg /\ fitOut = NoFit

(***************************************************************************)
(* POST /api/tag: api_tag_image, one action per step between which another *)
(* thread can run (the handler takes no lock).                             *)
(***************************************************************************)
MsgMissing == "Missing folder or filename"
MsgNotFound == "File not found"
MsgAlready == "Already tagged"
MsgNoExif == "No EXIF location or time data found"
MsgTagged == "Tagged successfully"

\* lines 110-139: validation, the is_file check and the tag-state check
ApiTagCheck(r, wellFormed, filename) ==
    /\ Arrives(r)
    /\ LET image_path == Join(Folder, filename)
           me == [req[r] EXCEPT !.kind = "tag", !.filename = filename]
       IN  req' = [req EXCEPT ![r] =
              IF ~wellFormed
              THEN Respond([req[r] EXCEPT !.kind = "tag"], 400, "", MsgMissing, "")
              ELSE IF image_path \notin DOMAIN files
              THEN Respond(me, 404, "error", MsgNotFound, "")
              ELSE IF is_tagged(image_path, files)
              THEN Respond(me, 200, "skipped", MsgAlready, "")
              ELSE [me EXCEPT !.pc = "overlay"]]
    /\ UNCHANGED <<files, dirs, writes, geoIn, geoOut, fitIn, fitOut>>

\* overlay_text lines 119-155 under the handler's try
ApiTagCompose(r, answers) ==
    /\ req[r].pc = "overlay"
    /\ \E c \in {overlay_compose(Join(Folder, req[r].filename),
                                  files[Join(Folder, req[r].filename)], answers)} :
       LET me == [req[r] EXCEPT !.answers = IF c.geocoding = <<>> THEN <<>> ELSE answers]
       IN  req' = [req EXCEPT ![r] =
              IF c.result = "raise" THEN Caught(me, c.exc)
              ELSE IF c.result = "none" THEN Respond(me, 200, "skipped", MsgNoExif, "")
              ELSE [me EXCEPT !.pc = "save", !.image = c.image]]
    /\ UNCHANGED <<files, dirs, writes, geoIn, geoOut, fitIn, fitOut>>

\* What the file system lets the save do: create the directory and write,
\* refuse the directory, or create the directory and fail the write.
Disk == {"ok", "mkdir fails", "save fails"}

\* overlay_text lines 158-169 (directory mode) and the handler's lines
\* 143-172.  No other thread reads dirs, so mkdir and save are one step.
ApiTagSave(r, disk) ==
    /\ req[r].pc = "save"
    /\ LET image_path == Join(Folder, req[r].filename)
           tagged_dir == Sub(Folder, "tagged")
           output_path == overlay_output_path(image_path, <<>>, <<tagged_dir>>)
       IN  /\ disk = "mkdir fails" => tagged_dir \notin dirs
           /\ dirs' = IF disk = "mkdir fails" THEN dirs ELSE dirs \cup {tagged_dir}
           /\ files' = IF disk = "ok"
                       THEN Put(files, output_path, Tagged(image_path, req[r].image))
                       ELSE files
           /\ writes' = IF disk = "ok"
                        THEN Put(writes, output_path, Count(writes, output_path) + 1)
                        ELSE writes
           /\ req' = [req EXCEPT ![r] =
                 IF disk = "ok"
                 THEN Respond(req[r], 200, "success", MsgTagged, NameOf(output_path))
                 ELSE Caught(req[r], "OSError")]
    /\ UNCHANGED <<geoIn, geoOut, fitIn, fitOut>>

(***************************************************************************)
(* GET /api/images and GET /api/thumbnail/<filename>.                      *)
(***************************************************************************)
Entry(folder, n) == [filename |-> NameOf(n), tagged |-> is_tagged(Join(folder, n), files)]

ApiListImages(r, folder) ==
    /\ Arrives(r)
    /\ LET me == [req[r] EXCEPT !.kind = "images"]
           images == list_images(folder, files)
       IN  req' = [req EXCEPT ![r] =
              IF folder = "" THEN Respond(me, 400, "", "No folder specified", "")
              ELSE IF folder \notin dirs THEN Respond(me, 404, "", "Directory not found", "")
              ELSE [Respond(me, 200, "", "", "") EXCEPT
                       !.images = [i \in 1..Len(images) |-> Entry(folder, images[i])]]]
    /\ UNCHANGED <<files, dirs, writes, geoIn, geoOut, fitIn, fitOut>>

\* jpeg: whether thumb.save(buf, format="JPEG") accepts the image's mode
ApiThumbnail(r, folder, filename, jpeg) ==
    /\ Arrives(r)
    /\ LET me == [req[r] EXCEPT !.kind = "thumbnail", !.filename = filename]
           image_path == Join(folder, filename)
       IN  req' = [req EXCEPT ![r] =
              IF folder = "" THEN Respond([req[r] EXCEPT !.kind = "thumbnail"], 400, "", "", "")
              ELSE IF image_path \notin DOMAIN files THEN Respond(me, 404, "", "", "")
              ELSE IF ~files[image_path].readable THEN Respond(me, 500, "", "OSError", "")
              ELSE IF ~files[image_path].decodable
              THEN Respond(me, 500, "", "UnidentifiedImageError", "")
              ELSE IF ~jpeg THEN Respond(me, 500, "", "OSError", "")
              ELSE Respond(me, 200, "", "", "")]
    /\ UNCHANGED <<files, dirs, writes, geoIn, geoOut, fitIn, fitOut>>

(***************************************************************************)
(* Command line: _cli_main runs overlay_text(image_path, output_path) and  *)
(* catches nothing.  output_path is <<>> (sibling mode) or <<path>>.       *)
(***************************************************************************)
\* The process ends with status "saved" or "no exif" (exit code 0), or with
\* "traceback": the uncaught exception named in message.
CliTag(r, image, output_path, answers, disk) ==
    /\ Arrives(r)
    /\ disk # "mkdir fails"
    /\ \E c \in {overlay_compose(Join(Folder, image), files[Join(Folder, image)], answers)} :
       LET image_path == Join(Folder, image)
           out == overlay_output_path(image_path, output_path, <<>>)
           me == [req[r] EXCEPT !.kind = "cli", !.filename = image,
                                !.output_path = output_path,
                                !.answers = IF c.geocoding = <<>> THEN <<>> ELSE answers]
           End(status, exc, output) ==
               req' = [req EXCEPT ![r] = Respond(me, 0, status, exc, output)]
       IN  IF c.result = "raise"
           THEN End("traceback", c.exc, "") /\ UNCHANGED <<files, writes>>
           ELSE IF c.result = "none"
           THEN End("no exif", NoExc, "") /\ UNCHANGED <<files, writes>>
           ELSE IF disk = "save fails"
           THEN End("traceback", "OSError", "") /\ UNCHANGED <<files, writes>>
           ELSE /\ End("saved", NoExc, NameOf(out))
                /\ files' = Put(files, out, Tagged(image_path, c.image))
                /\ writes' = Put(writes, out, Count(writes, out) + 1)
    /\ UNCHANGED <<dirs, geoIn, geoOut, fitIn, fitOut>>

Next ==
    \/ \E r \in Req, wellFormed \in BOOLEAN, filename \in Names :
          ApiTagCheck(r, wellFormed, filename)
    \/ \E r \in Req, answers \in AnswerSeqs : ApiTagCompose(r, answers)
    \/ \E r \in Req, disk \in Disk : ApiTagSave(r, disk)
    \/ \E r \in Req, folder \in {"", Folder, "/nowhere"} : ApiListImages(r, folder)
    \/ \E r \in Req, folder \in {"", Folder}, filename \in ThumbNames, jpeg \in BOOLEAN :
          ApiThumbnail(r, folder, filename, jpeg)
    \/ \E r \in Req, image \in CliImages, output_path \in {<<>>, <<ExplicitOut>>},
          answers \in AnswerSeqs, disk \in Disk :
          CliTag(r, image, output_path, answers, disk)

Spec == Init /\ [][Next]_vars

(***************************************************************************)
(* get_location_string on its own: every pair of answers of the geocoding  *)
(* service over every combination of address fields.                       *)
(***************************************************************************)
PlaceName == ("city" :> "Springfield") @@ ("town" :> "Smallville")
             @@ ("village" :> "Littleton") @@ ("municipality" :> "Metro")
             @@ ("state" :> "Illinois")
Countries == USNames \cup {"France"}

AddrOf(keys, country) ==
    [k \in keys \cup (IF country = None THEN {} ELSE {"country"}) |->
        IF k = "country" THEN country ELSE PlaceName[k]]

AllAddresses == {AddrOf(keys, c) : keys \in SUBSET DOMAIN PlaceName,
                                   c \in Countries \cup {None}}
AllAnswers == {Raises, NoMatch} \cup {Match(a) : a \in AllAddresses}

InitGeo ==
    /\ Service
    /\ geoIn \in [1..Attempts -> AllAnswers] /\ geoOut = GeoPending
    /\ fitIn = NoImg /\ fitOut = NoFit

Resolve ==
    /\ geoOut = GeoPending
    /\ geoOut' = get_location_string(geoIn)
    /\ UNCHANGED <<files, dirs, writes, req, geoIn, fitIn, fitOut>>

NextGeo == Resolve

SpecGeo == InitGeo /\ [][NextGeo]_vars

(***************************************************************************)
(* fit_to_16_9 on its own: every small size and the sizes of common        *)
(* photographs.                                                            *)
(***************************************************************************)
PhotoDims == {480, 562, 640, 900, 1000, 1080, 1600, 1920, 1921, 2000, 3000, 4000}
Dims == 1..MaxDim \cup PhotoDims

InitFit ==
    /\ Service
    /\ geoIn = <<>> /\ geoOut = GeoPending
    /\ fitIn \in [width : Dims, height : Dims] /\ fitOut = NoFit

Fit ==
    /\ fitOut = NoFit
    /\ fitOut' = fit_to_16_9(fitIn)
    /\ UNCHANGED <<files, dirs, writes, req, geoIn, geoOut, fitIn>>

NextFit == Fit

SpecFit == InitFit /\ [][NextFit]_vars

(***************************************************************************)
(* Properties of the service and the command line (checked under Spec).    *)
(***************************************************************************)
Done(r) == req[r].pc = "done"
TagReq(r) == req[r].kind = "tag" /\ req[r].filename # NoName
Ok(r) == TagReq(r) /\ Done(r) /\ req[r].status = "success"
Begins(r) == req[r].pc = "idle" /\ req'[r].pc # "idle"
Ends(r) == req[r].pc # "done" /\ req'[r].pc = "done"
PhotoPath(n) == [dir |-> "/photos", stem |-> n.stem, suffix |-> n.suffix]
MarkerOf(n) == [dir |-> "/photos/tagged", stem |-> n.stem \o "_tagged", suffix |-> ".png"]
SameDisk == files' = files /\ writes' = writes
Tags(n) == Catalog[PhotoPath(n)].tags

\* C1: tagging the same source twice in directory mode, the first run
\* succeeding, the second run is skipped and writes nothing: the output
\* <stem>_tagged.png is not written again.
C1_SecondRunSkipped ==
    [][\A r \in Req :
          /\ (/\ Begins(r) /\ req'[r].kind = "tag"
              /\ \E q \in Req : Ok(q) /\ req[q].filename = req'[r].filename)
                => (/\ req'[r].pc = "done" /\ req'[r].status = "skipped"
                    /\ req'[r].message = "Already tagged" /\ SameDisk)
          /\ Done(r) => req'[r] = req[r]]_vars

C1_Witness ==
    \E q, r \in Req :
        /\ Ok(q) /\ TagReq(r) /\ Done(r) /\ req[r].filename = req[q].filename
        /\ req[r].status = "skipped" /\ req[r].message = "Already tagged"
        /\ Count(writes, MarkerOf(req[q].filename)) = 1

\* C2: when both geocoding attempts raise, the tagging is not failed by it:
\* with a capture timestamp it ends in success (or in an error of the save),
\* without one in skipped.
C2_GeocodeFailureNotFatal ==
    \A r \in Req :
        (TagReq(r) /\ Done(r) /\ req[r].answers = <<Raises, Raises>>) =>
            IF "EXIF DateTimeOriginal" \in DOMAIN Tags(req[r].filename)
            THEN \/ req[r].status = "success"
                 \/ req[r].status = "error" /\ req[r].message = "OSError"
            ELSE req[r].status = "skipped"

\* C4: after a tagging in directory mode succeeds the tag-state check of that
\* source reports true, it reports true in every later state, and at any time
\* it reports true exactly when <folder>/tagged/<stem>_tagged.png exists.
C4_TagState ==
    /\ [](\A n \in Names :
             is_tagged(PhotoPath(n), files) <=> MarkerOf(n) \in DOMAIN files)
    /\ [](\A r \in Req : Ok(r) => is_tagged(PhotoPath(req[r].filename), files))
    /\ [][\A n \in Names :
             is_tagged(PhotoPath(n), files) => is_tagged(PhotoPath(n), files')]_vars

C4_Witness ==
    \E q, r \in Req :
        /\ Ok(q) /\ Done(r) /\ req[r].kind = "images" /\ req[r].http = 200
        /\ \E i \in 1..Len(req[r].images) :
              /\ req[r].images[i].filename = NameOf(req[q].filename)
              /\ req[r].images[i].tagged

\* C5: two requests for the same source are not serialized: when both end in
\* success both have written <stem>_tagged.png, the later save replacing the
\* earlier one; what the marker then holds was made from a source of that
\* stem.
C5_UnlockedRace ==
    \A q, r \in Req :
        (q # r /\ Ok(q) /\ Ok(r) /\ req[q].filename = req[r].filename) =>
            /\ Count(writes, MarkerOf(req[q].filename)) >= 2
            /\ MarkerOf(req[q].filename) \in DOMAIN files
            /\ files[MarkerOf(req[q].filename)].from.stem = req[q].filename.stem

C5_Witness ==
    \E q, r \in Req : q # r /\ Ok(q) /\ Ok(r) /\ req[q].filename = req[r].filename

Raising ==
       (MkName("IMG_4", ".jpg") :> "ValueError")
    @@ (MkName("IMG_5", ".jpg") :> "ZeroDivisionError")
    @@ (MkName("IMG_6", ".jpg") :> "KeyError")
    @@ (MkName("IMG_7", ".png") :> "OSError")

Outcome(r) ==
    IF req[r].kind = "tag" THEN req[r].status
    ELSE IF req[r].status = "saved" THEN "success"
    ELSE IF req[r].status = "no exif" THEN "skipped"
    ELSE "uncaught exception"

Extracted(r) ==
    get_exif_data(Catalog[PhotoPath(req[r].filename)],
                  IF req[r].answers = <<>> THEN <<NoMatch, NoMatch>> ELSE req[r].answers)
Neither(r) ==
    /\ PhotoPath(req[r].filename) \in DOMAIN Catalog
    /\ Extracted(r).exc = NoExc
    /\ ~Truthy(Extracted(r).location) /\ Extracted(r).capture_time = <<>>
RanOverlay(r) ==
    \/ req[r].kind = "cli" /\ req[r].pc = "done"
    \/ req[r].kind = "tag" /\ req[r].pc = "save"
    \/ TagReq(r) /\ Done(r) /\ req[r].message # "Already tagged"

\* C7: when the extractor yields neither a place nor a timestamp, the tagging
\* returns skipped and changes nothing on disk: no output file, no output
\* directory, in explicit-path, directory and sibling mode.
C7_SkipWritesNothing ==
    /\ [](\A r \in Req : (RanOverlay(r) /\ Neither(r)) =>
             /\ Done(r) /\ req[r].output = ""
             /\ req[r].kind = "tag" =>
                   req[r].status = "skipped"
                   /\ req[r].message = "No EXIF location or time data found"
             /\ req[r].kind = "cli" => req[r].status = "no exif")
    /\ [][\A r \in Req :
             (Ends(r) /\ Outcome(r)' = "skipped" /\ req'[r].message # "Already tagged")
                 => SameDisk /\ dirs' = dirs]_vars

C7_Witness ==
    \E q, r \in Req :
        /\ TagReq(q) /\ Done(q) /\ Neither(q) /\ req[q].status = "skipped"
        /\ req[r].kind = "cli" /\ Done(r) /\ Neither(r)
        /\ req[r].output_path = <<ExplicitOut>> /\ req[r].status = "no exif"
        /\ ExplicitOut \notin DOMAIN files /\ "/photos/tagged" \notin dirs

SharesStem(n, m) == n.stem = m.stem /\ n # m /\ PhotoPath(m) \in DOMAIN files

\* C10: the marker is keyed by the stem: once one of two sources that share
\* a stem has been tagged through the service, the other is listed as
\* already tagged and a tagging request for it is skipped and writes nothing.
C10_SharedMarker ==
    [][\A q, r \in Req : \A m \in Names :
          (Begins(r) /\ Ok(q) /\ SharesStem(req[q].filename, m)) =>
              /\ (req'[r].kind = "tag" /\ req'[r].filename = m) =>
                    /\ req'[r].pc = "done" /\ req'[r].status = "skipped"
                    /\ req'[r].message = "Already tagged" /\ SameDisk
              /\ (req'[r].kind = "images" /\ req'[r].http = 200) =>
                    \E i \in 1..Len(req'[r].images) :
                        /\ req'[r].images[i].filename = NameOf(m)
                        /\ req'[r].images[i].tagged]_vars

C10_Witness ==
    \E q, r \in Req :
        /\ Ok(q) /\ req[q].filename = MkName("IMG_1", ".jpg")
        /\ TagReq(r) /\ Done(r) /\ req[r].filename = MkName("IMG_1", ".heic")
        /\ req[r].status = "skipped" /\ req[r].message = "Already tagged"
        /\ files[MarkerOf(req[r].filename)].from = PhotoPath(req[q].filename)

(***************************************************************************)
(* Properties of get_location_string (checked under SpecGeo).              *)
(***************************************************************************)
Resolved == geoOut # GeoPending
Calls(trace) == Len(SelectSeq(trace, LAMBDA e : e.ev = "reverse"))
Returned == {geoIn[i] : i \in {j \in 1..Attempts : geoIn[j].kind # "raise"}}

\* C3: one place resolution calls the geocoding service at most 2 times, and
\* calls it a second time only when the first call failed, after a 2-second
\* wait; a first call that succeeds is never followed by a second call.
C3_RetryOnlyAfterFailure ==
    Resolved =>
        /\ Calls(geoOut.trace) <= 2
        /\ geoIn[1].kind # "raise" => Calls(geoOut.trace) = 1
        /\ Calls(geoOut.trace) = 2 =>
              /\ geoIn[1].kind = "raise"
              /\ SubSeq(geoOut.trace, 1, 3) = <<Call, Sleep(2), Call>>

LocalityOrder == <<"city", "town", "village", "municipality">>
Locality(a) ==
    LET present == SelectSeq(LocalityOrder, LAMBDA k : k \in DOMAIN a)
    IN  IF present = <<>> THEN <<>> ELSE <<a[present[1]]>>

Policy(a) ==
    LET loc == Locality(a)
        hasState == "state" \in DOMAIN a
        hasCountry == "country" \in DOMAIN a
    IN  CASE hasCountry /\ a["country"] \in
                {"United States", "USA", "United States of America"} ->
               (CASE loc # <<>> /\ hasState -> loc[1] \o ", " \o a["state"]
                  [] loc = <<>> /\ hasState -> a["state"]
                  [] OTHER -> "USA")
          [] OTHER ->
               (CASE loc # <<>> /\ hasCountry -> loc[1] \o ", " \o a["country"]
                  [] loc = <<>> /\ hasCountry -> a["country"]
                  [] OTHER -> "Unknown")

\* C8: for every combination of present and absent city, town, village,
\* municipality, state and country in the matched address, the resolver
\* returns the string of the formatting policy (locality = first present of
\* city > town > village > municipality; United States: "locality, state",
\* else the state, else "USA"; elsewhere: "locality, country", else the
\* country, else "Unknown").
C8_FormattingPolicy ==
    Resolved =>
        \A a \in AllAddresses :
            Returned = {Match(a)} =>
                geoOut.exc = NoExc /\ geoOut.value = Policy(a)

C8_Witness ==
    /\ Resolved
    /\ geoIn[2] = Match(AddrOf({"city", "town", "village", "state"}, "France"))
    /\ geoIn[1] = geoIn[2]
    /\ geoOut.value = "Springfield, France"

(***************************************************************************)
(* Properties of fit_to_16_9 (checked under SpecFit).                      *)
(***************************************************************************)
Fitted == fitOut # NoFit /\ fitOut.exc = NoExc
LeftBar == fitOut.x_offset
RightBar == fitOut.width - fitOut.new_width - fitOut.x_offset
TopBar == fitOut.y_offset
BottomBar == fitOut.height - fitOut.new_height - fitOut.y_offset
Is(w, h) == fitIn.width = w /\ fitIn.height = h

CanvasRule ==
    /\ fitOut.width = (IF fitIn.width <= 1920 THEN fitIn.width ELSE 1920)
    /\ fitOut.height = (fitOut.width * 9) \div 16
    /\ fitOut.new_width <= fitOut.width
    /\ fitOut.new_height <= fitOut.height

\* C9 as stated: canvas width min(w, 1920), height width*9/16 truncated, the
\* scaled image within the canvas and centred with equal opposite bars; a
\* 4000x2000 source gives canvas 1920x1080 with scaled image 1920x1080 and no
\* bars, a 1000x2000 source equal left and right bars.
C9_AsStated ==
    Fitted =>
        /\ CanvasRule
        /\ LeftBar = RightBar /\ TopBar = BottomBar
        /\ Is(4000, 2000) =>
              /\ fitOut.width = 1920 /\ fitOut.height = 1080
              /\ fitOut.new_width = 1920 /\ fitOut.new_height = 1080
              /\ TopBar = 0 /\ BottomBar = 0
        /\ Is(1000, 2000) => LeftBar > 0 /\ LeftBar = RightBar

\* C9 amended: canvas width min(w, 1920), height width*9/16 truncated, the
\* scaled image within the canvas and centred so that opposite bars differ by
\* at most one pixel (the right or bottom bar takes the odd pixel); a
\* 4000x2000 source gives canvas 1920x1080 with scaled image 1920x960 and
\* bars of 60 above and below, a 1000x2000 source canvas 1000x562 with scaled
\* image 281x562 and bars of 359 left and 360 right.
C9_Fit ==
    Fitted =>
        /\ CanvasRule
        /\ RightBar - LeftBar \in {0, 1} /\ BottomBar - TopBar \in {0, 1}
        /\ Is(4000, 2000) =>
              /\ fitOut.width = 1920 /\ fitOut.height = 1080
              /\ fitOut.new_width = 1920 /\ fitOut.new_height = 960
              /\ TopBar = 60 /\ BottomBar = 60 /\ LeftBar = 0 /\ RightBar = 0
        /\ Is(1000, 2000) =>
              /\ fitOut.width = 1000 /\ fitOut.height = 562
              /\ fitOut.new_width = 281 /\ fitOut.new_height = 562
              /\ LeftBar = 359 /\ RightBar = 360 /\ TopBar = 0 /\ BottomBar = 0

C9_Witness == Fitted /\ Is(1000, 2000) /\ LeftBar = 359 /\ RightBar = 360

====
